---- MODULE Spec2Model ----
(***************************************************************************)
(* Balance mutation and transaction history of nutech-api (src/index.js).  *)
(*                                                                         *)
(* The handlers POST /topup and POST /transaction are sequences of         *)
(* `await pool.query(...)` calls.  Every pool.query checks a client out of *)
(* the pg Pool, runs ONE statement on it and releases it, so the BEGIN,    *)
(* UPDATE, INSERT and COMMIT of one handler may run on different           *)
(* connections; other handlers run between any two awaits.  The store is   *)
(* modelled as PostgreSQL sessions in READ COMMITTED: a session without an *)
(* open transaction autocommits, a session with one keeps its writes       *)
(* pending (and its rows locked) until a COMMIT reaches that session or    *)
(* the session is closed.  No handler ever issues ROLLBACK; pool.query     *)
(* releases a client whose statement raised with the error, and the pool   *)
(* then closes that client.                                                *)
(***************************************************************************)
EXTENDS Integers, Sequences, FiniteSets, TLC

\* ---------------------------------------------------------------- bounds
MaxAmount == 1          \* largest integer top_up_amount a client sends
MaxFailures == 1        \* store failures (StoreUnavailable) injected per run
MaxInitial == 1         \* largest balance the store holds when the server starts
MaxTime == 1            \* seconds the clock advances during a run
MaxRand == 0            \* largest value of the invoice number's random part
MaxPage == 1            \* largest limit and offset a client asks for

Reqs == {1, 2}          \* concurrent HTTP requests of the one user
Conns == {"k1", "k2"}   \* clients of the pg Pool
FirstRequest == {1}     \* the one POST request that runs beside the GET handlers

\* ------------------------------------------------------ request payloads
\* A JSON value of req.body: an integer, n + 0.5, true, a non-numeric
\* string, or absent.
JInt(n) == [k |-> "int", v |-> n]
JHalf(n) == [k |-> "half", v |-> n]
JTrue == [k |-> "true", v |-> 0]
JStr == [k |-> "str", v |-> 0]
JUndef == [k |-> "undef", v |-> 0]

AmountInputs ==
    {JInt(n) : n \in -1 .. MaxAmount} \cup {JHalf(1), JTrue, JStr, JUndef}

\* tbl_service: the catalog, service_code -> service_tariff (service_name is
\* the code itself here).
ServiceTariff == [PULSA |-> 1]
ServiceName == [PULSA |-> "Pulsa"]
ServiceCodes == DOMAIN ServiceTariff
CodeInputs == {"", "PULSA", "NOPE"}

\* ------------------------------------------------- JavaScript coercions
NaN == -1000000

\* !x
Falsy(x) == x.k = "undef" \/ (x.k = "int" /\ x.v = 0)

\* isNaN(x): Number(x) is NaN
IsNaNJS(x) == x.k \in {"undef", "str"}

\* x <= 0 after ToNumber; false when Number(x) is NaN
LeZero(x) ==
    CASE x.k = "int" -> x.v <= 0
      [] x.k = "half" -> x.v < 0
      [] OTHER -> FALSE

\* parseInt(x): String(x), then the leading integer
ParseInt(x) ==
    CASE x.k = "int" -> x.v
      [] x.k = "half" -> IF x.v >= 0 THEN x.v ELSE x.v + 1
      [] OTHER -> NaN

\* a + b on numbers
JsAdd(a, b) == IF a = NaN \/ b = NaN THEN NaN ELSE a + b

\* ------------------------------------------------------------ the store
\* Parameter bound to an integer column (balance_value, amount): node-pg
\* sends String(x); PostgreSQL rejects anything that is not an integer.
PgIntegerAccepts(x) == x.k = "int"
PgIntegerAcceptsNumber(n) == n # NaN
PgIntegerValue(x) == x.v

VARIABLES
    uniqueUserId,  \* does tbl_balance carry UNIQUE (user_id)? (schema, fixed)
    bal,           \* committed tbl_balance rows of the user: balance_id -> balance_value
    hist,          \* committed tbl_trx_history rows, in insertion order
    nextBalId,     \* the balance_id sequence
    balW,          \* committed tbl_balance writes: <<request, "ins" | "upd">>
    tx,            \* per pool client: "none" | "open" (inside a transaction)
    txStart,       \* per client: when its open transaction started (0: none)
    pbal,          \* per client: uncommitted tbl_balance writes, balance_id -> value
    phist,         \* per client: uncommitted tbl_trx_history rows
    pbalW,         \* per client: the uncommitted tbl_balance writes, as in balW
    failures,      \* store failures injected so far
    now,           \* the clock, in seconds
    pc,            \* per request: the await it is suspended at
    op,            \* per request: "topup" | "payment"
    amt,           \* top_up_amount
    code,          \* service_code
    cur,           \* currentBalance / balance_value as read
    balId,         \* balance_id as read (payment) or returned by UPDATE (topup)
    newBal,        \* newBalance
    inv,           \* invNumber
    result,        \* outcome sent to the client
    seen,          \* requests whose UPDATE was visible to the request's SELECT
    began,         \* has the request issued BEGIN?
    alone,         \* has no other request been in flight during this one?
    bal0,          \* committed tbl_balance when the request arrived
    hist0,         \* committed tbl_trx_history when the request arrived
    used,          \* the pool clients the request's statements ran on
    reply          \* the answer of the GET handler that ran last; none once
                   \* any other step was taken since

dbVars == <<uniqueUserId, bal, hist, nextBalId, balW>>
sessVars == <<tx, txStart, pbal, phist, pbalW>>
locals == <<op, amt, code, cur, balId, newBal, inv>>
ghosts == <<seen, began, alone, bal0, hist0>>
reqVars == <<pc, result, locals, ghosts, used>>
vars == <<dbVars, sessVars, failures, now, reqVars, reply>>

Empty == <<>>

NoReply ==
    [op |-> "none", limit |-> JUndef, offset |-> JUndef, status |-> "none",
     rows |-> <<>>, balance |-> 0]

\* What a statement on client c sees: committed rows, overlaid by the
\* uncommitted writes of c's own open transaction.
View(c) == IF tx[c] = "open" THEN pbal[c] @@ bal ELSE bal

\* Row locks: a row written in a transaction that has not ended stays locked.
LockedByOther(c, ids) ==
    \E d \in Conns \ {c} : tx[d] = "open" /\ ids \cap DOMAIN pbal[d] # {}

\* An uncommitted INSERT of another session: a unique index makes a
\* conflicting INSERT wait for it.
PendingInsertElsewhere(c) ==
    \E d \in Conns \ {c} : tx[d] = "open" /\ (DOMAIN pbal[d]) \ (DOMAIN bal) # {}

\* INSERT / UPDATE of tbl_balance rows by request r on client c.
WriteBalance(c, r, kind, rows) ==
    IF tx[c] = "open"
    THEN /\ pbal' = [pbal EXCEPT ![c] = rows @@ @]
         /\ pbalW' = [pbalW EXCEPT ![c] = @ \cup {<<r, kind>>}]
         /\ UNCHANGED <<bal, balW>>
    ELSE /\ bal' = rows @@ bal
         /\ balW' = balW \cup {<<r, kind>>}
         /\ UNCHANGED <<pbal, pbalW>>

\* The requests whose UPDATE a statement on client c sees.
SeenBy(c) ==
    {w[1] : w \in {x \in balW \cup (IF tx[c] = "open" THEN pbalW[c] ELSE {}) :
                      x[2] = "upd"}}

\* The store's clock, as a count of the moments it has handed out: every
\* time read is later than all handed out before.
Stamps ==
    {0} \cup {txStart[c] : c \in Conns}
        \cup {hist[i].created_date : i \in DOMAIN hist}
        \cup UNION {{phist[c][i].created_date : i \in DOMAIN phist[c]} : c \in Conns}
Latest(S) == CHOOSE x \in S : \A y \in S : y <= x

\* now() in a statement on client c: the start of the current transaction,
\* which is the statement itself outside a transaction block.
PgNow(c) == IF tx[c] = "open" THEN txStart[c] ELSE Latest(Stamps) + 1

\* INSERT INTO tbl_trx_history (..., created_date) VALUES (..., now()) on
\* client c.
WriteHistory(c, row) ==
    IF tx[c] = "open"
    THEN /\ phist' = [phist EXCEPT ![c] = Append(@, row @@ [created_date |-> PgNow(c)])]
         /\ UNCHANGED hist
    ELSE /\ hist' = Append(hist, row @@ [created_date |-> PgNow(c)])
         /\ UNCHANGED phist

\* BEGIN on client c (a warning, not an error, inside a transaction).
PgBegin(c) ==
    /\ tx' = [tx EXCEPT ![c] = "open"]
    /\ txStart' = [txStart EXCEPT ![c] = PgNow(c)]

\* The transaction of client c ends without effect (ROLLBACK, session closed).
PgDiscard(c) ==
    /\ tx' = [tx EXCEPT ![c] = "none"]
    /\ txStart' = [txStart EXCEPT ![c] = 0]
    /\ pbal' = [pbal EXCEPT ![c] = Empty]
    /\ phist' = [phist EXCEPT ![c] = <<>>]
    /\ pbalW' = [pbalW EXCEPT ![c] = {}]

\* COMMIT on client c: commits an open transaction, is a warning without one.
PgCommit(c) ==
    IF tx[c] = "open"
    THEN /\ bal' = pbal[c] @@ bal
         /\ hist' = hist \o phist[c]
         /\ balW' = balW \cup pbalW[c]
         /\ PgDiscard(c)
    ELSE UNCHANGED <<bal, hist, balW, tx, txStart, pbal, phist, pbalW>>

\* ---------------------------------------------------------- the handlers
Done(r, res) ==
    /\ pc' = [pc EXCEPT ![r] = "done"]
    /\ result' = [result EXCEPT ![r] = res]

Goto(r, l) ==
    /\ pc' = [pc EXCEPT ![r] = l]
    /\ UNCHANGED result

\* pool.query(...) of request r runs on client c.
OnClient(r, c) == used' = [used EXCEPT ![r] = @ \cup {c}]

\* A statement of request r raises on client c: pool.query releases c with
\* the error, which closes it (the server rolls its transaction back), and
\* the catch block answers 500.
Raise(r, c) ==
    /\ Done(r, "Error500")
    /\ PgDiscard(c)

\* if (!top_up_amount || isNaN(top_up_amount) || top_up_amount <= 0)
InvalidAmount(a) == Falsy(a) \/ IsNaNJS(a) \/ LeZero(a)

\* function generateInvoiceNumber(): second-resolution time and 2 random bytes
GenerateInvoiceNumber(t, rnd) == <<t, rnd>>
HistoryRow(r, id, invoice, amount, before, after, type, descr) ==
    [balance_id |-> id, invoice_number |-> invoice, amount |-> amount,
     balance_before |-> before, balance_after |-> after, trx_type |-> type,
     description |-> descr, req |-> r]

\* The store outlives the server: at start it is empty, or holds what one
\* committed Top-Up(b) of an earlier run (request 0) left.
InitialStore(b) ==
    IF b = 0
    THEN /\ bal = Empty
         /\ hist = <<>>
         /\ nextBalId = 1
    ELSE /\ bal = 1 :> b
         /\ hist = <<HistoryRow(0, 1, GenerateInvoiceNumber(-1, 0), b, 0, b,
                                "TOPUP", "Top Up Balance")
                         @@ [created_date |-> 0]>>
         /\ nextBalId = 2

Init ==
    /\ uniqueUserId \in BOOLEAN
    /\ \E b \in 0 .. MaxInitial : InitialStore(b)
    /\ balW = {}
    /\ tx = [c \in Conns |-> "none"]
    /\ txStart = [c \in Conns |-> 0]
    /\ pbal = [c \in Conns |-> Empty]
    /\ phist = [c \in Conns |-> <<>>]
    /\ pbalW = [c \in Conns |-> {}]
    /\ failures = 0
    /\ now = 0
    /\ pc = [r \in Reqs |-> "idle"]
    /\ result = [r \in Reqs |-> "none"]
    /\ op = [r \in Reqs |-> "none"]
    /\ amt = [r \in Reqs |-> JUndef]
    /\ code = [r \in Reqs |-> ""]
    /\ cur = [r \in Reqs |-> 0]
    /\ balId = [r \in Reqs |-> 0]
    /\ newBal = [r \in Reqs |-> 0]
    /\ inv = [r \in Reqs |-> <<>>]
    /\ seen = [r \in Reqs |-> {}]
    /\ began = [r \in Reqs |-> FALSE]
    /\ alone = [r \in Reqs |-> TRUE]
    /\ bal0 = [r \in Reqs |-> Empty]
    /\ hist0 = [r \in Reqs |-> <<>>]
    /\ used = [r \in Reqs |-> {}]
    /\ reply = NoReply

InFlight(r) == pc[r] \notin {"idle", "done"}

\* Requests arrive in the order of their numbers.
MayArrive(r) == pc[r] = "idle" /\ \A q \in Reqs : q < r => pc[q] # "idle"

\* Request r arrives; suspends says whether it reaches an await.  The store
\* as it was on arrival is kept for the requests that run alone.
Arrive(r, suspends) ==
    /\ alone' = [q \in Reqs |->
                    IF q = r THEN \A x \in Reqs \ {r} : ~InFlight(x)
                    ELSE IF suspends /\ InFlight(q) THEN FALSE
                    ELSE alone[q]]
    /\ bal0' = [q \in Reqs |->
                   IF ~alone'[q] THEN Empty ELSE IF q = r THEN bal ELSE bal0[q]]
    /\ hist0' = [q \in Reqs |->
                    IF ~alone'[q] THEN <<>> ELSE IF q = r THEN hist ELSE hist0[q]]

\* POST /topup up to its first await: validation of top_up_amount.
TopUpRequest(r, a) ==
    /\ MayArrive(r)
    /\ reply' = NoReply
    /\ UNCHANGED used
    /\ op' = [op EXCEPT ![r] = "topup"]
    /\ amt' = [amt EXCEPT ![r] = a]
    /\ IF InvalidAmount(a) THEN Done(r, "InvalidAmount") ELSE Goto(r, "t_select")
    /\ Arrive(r, ~InvalidAmount(a))
    /\ UNCHANGED <<dbVars, sessVars, failures, now, code, cur, balId, newBal, inv,
                   seen, began>>

\* SELECT balance_value FROM tbl_balance WHERE user_id = $1, and, when a row
\* came back, newBalance = parseInt(currentBalance) + parseInt(top_up_amount).
TopUpSelect(r, c) ==
    /\ pc[r] = "t_select"
    /\ reply' = NoReply
    /\ OnClient(r, c)
    /\ seen' = [seen EXCEPT ![r] = SeenBy(c)]
    /\ IF DOMAIN View(c) # {}
       THEN \E id \in DOMAIN View(c) :
               /\ cur' = [cur EXCEPT ![r] = View(c)[id]]
               /\ newBal' = [newBal EXCEPT ![r] =
                                JsAdd(ParseInt(JInt(View(c)[id])), ParseInt(amt[r]))]
               /\ Goto(r, "t_begin")
       ELSE /\ Goto(r, "t_insbal")
            /\ UNCHANGED <<cur, newBal>>
    /\ UNCHANGED <<dbVars, sessVars, failures, now, op, amt, code, balId, inv,
                   began, alone, bal0, hist0>>

\* INSERT INTO tbl_balance (user_id, balance_value, ...) VALUES ($1, 0, ...),
\* then newBalance = parseInt(0) + parseInt(top_up_amount).
TopUpInsertBalance(r, c) ==
    /\ pc[r] = "t_insbal"
    /\ reply' = NoReply
    /\ OnClient(r, c)
    /\ uniqueUserId => ~PendingInsertElsewhere(c)
    /\ nextBalId' = nextBalId + 1
    /\ IF uniqueUserId /\ DOMAIN View(c) # {}
       THEN /\ Raise(r, c)
            /\ UNCHANGED <<bal, balW, newBal>>
       ELSE /\ WriteBalance(c, r, "ins", nextBalId :> 0)
            /\ newBal' = [newBal EXCEPT ![r] =
                             JsAdd(ParseInt(JInt(cur[r])), ParseInt(amt[r]))]
            /\ Goto(r, "t_begin")
            /\ UNCHANGED <<tx, txStart, phist>>
    /\ UNCHANGED <<uniqueUserId, hist, failures, now, op, amt, code, cur, balId, inv,
                   ghosts>>

\* await pool.query("BEGIN")
TopUpBegin(r, c) ==
    /\ pc[r] = "t_begin"
    /\ reply' = NoReply
    /\ OnClient(r, c)
    /\ PgBegin(c)
    /\ began' = [began EXCEPT ![r] = TRUE]
    /\ Goto(r, "t_update")
    /\ UNCHANGED <<dbVars, pbal, phist, pbalW, failures, now, locals,
                   seen, alone, bal0, hist0>>

\* UPDATE tbl_balance SET balance_value = $1 WHERE user_id = $2 RETURNING ...,
\* then invNumber = generateInvoiceNumber() and
\* balanceId = updateResult.rows[0].balance_id (a TypeError without a row).
TopUpUpdate(r, c, rnd) ==
    /\ pc[r] = "t_update"
    /\ reply' = NoReply
    /\ OnClient(r, c)
    /\ ~PgIntegerAcceptsNumber(newBal[r]) \/ ~LockedByOther(c, DOMAIN View(c))
    /\ IF ~PgIntegerAcceptsNumber(newBal[r])
       THEN /\ Raise(r, c)
            /\ UNCHANGED <<bal, balW, inv, balId>>
       ELSE IF DOMAIN View(c) = {}
       THEN /\ Done(r, "Error500")
            /\ inv' = [inv EXCEPT ![r] = GenerateInvoiceNumber(now, rnd)]
            /\ UNCHANGED <<bal, balW, tx, txStart, pbal, phist, pbalW,
                           balId>>
       ELSE /\ WriteBalance(c, r, "upd", [id \in DOMAIN View(c) |-> newBal[r]])
            /\ inv' = [inv EXCEPT ![r] = GenerateInvoiceNumber(now, rnd)]
            /\ \E id \in DOMAIN View(c) : balId' = [balId EXCEPT ![r] = id]
            /\ Goto(r, "t_inshist")
            /\ UNCHANGED <<tx, txStart, phist>>
    /\ UNCHANGED <<uniqueUserId, hist, nextBalId, failures, now, op, amt, code, cur,
                   newBal, ghosts>>

\* INSERT INTO tbl_trx_history (...) VALUES ($1, $2, $3, $4, $5, 'TOPUP',
\* 'Top Up Balance', ...) with [balanceId, invNumber, top_up_amount,
\* currentBalance, newBalance].
TopUpInsertHistory(r, c) ==
    /\ pc[r] = "t_inshist"
    /\ reply' = NoReply
    /\ OnClient(r, c)
    /\ IF ~PgIntegerAccepts(amt[r])
       THEN /\ Raise(r, c)
            /\ UNCHANGED hist
       ELSE /\ WriteHistory(c, HistoryRow(r, balId[r], inv[r], PgIntegerValue(amt[r]),
                                          cur[r], newBal[r], "TOPUP", "Top Up Balance"))
            /\ Goto(r, "t_commit")
            /\ UNCHANGED <<tx, txStart, pbal, pbalW>>
    /\ UNCHANGED <<uniqueUserId, bal, nextBalId, balW, failures, now, locals, ghosts>>

\* await pool.query("COMMIT"), then res.json({ data: { balance: newBalance } }).
TopUpCommit(r, c) ==
    /\ pc[r] = "t_commit"
    /\ reply' = NoReply
    /\ OnClient(r, c)
    /\ PgCommit(c)
    /\ Done(r, "ok")
    /\ UNCHANGED <<uniqueUserId, nextBalId, failures, now, locals, ghosts>>

TopUpResponse(r) == [balance |-> newBal[r]]

\* POST /transaction up to its first await: if (!service_code).
PaymentRequest(r, sc) ==
    /\ MayArrive(r)
    /\ reply' = NoReply
    /\ UNCHANGED used
    /\ op' = [op EXCEPT ![r] = "payment"]
    /\ code' = [code EXCEPT ![r] = sc]
    /\ IF sc = "" THEN Done(r, "MissingParameter") ELSE Goto(r, "p_selbal")
    /\ Arrive(r, sc # "")
    /\ UNCHANGED <<dbVars, sessVars, failures, now, amt, cur, balId, newBal, inv,
                   seen, began>>

\* SELECT balance_id, balance_value FROM tbl_balance WHERE user_id = $1
PaySelectBalance(r, c) ==
    /\ pc[r] = "p_selbal"
    /\ reply' = NoReply
    /\ OnClient(r, c)
    /\ seen' = [seen EXCEPT ![r] = SeenBy(c)]
    /\ IF DOMAIN View(c) = {}
       THEN /\ Done(r, "NoBalance")
            /\ UNCHANGED <<cur, balId>>
       ELSE \E id \in DOMAIN View(c) :
               /\ balId' = [balId EXCEPT ![r] = id]
               /\ cur' = [cur EXCEPT ![r] = View(c)[id]]
               /\ Goto(r, "p_selsvc")
    /\ UNCHANGED <<dbVars, sessVars, failures, now, op, amt, code, newBal, inv,
                   began, alone, bal0, hist0>>

InsufficientReversed(balance_value, service_tariff) ==
    balance_value > service_tariff
InsufficientOrEqual(balance_value, service_tariff) ==
    balance_value <= service_tariff

\* if (balance_value < service_tariff)
Insufficient(balance_value, service_tariff) == balance_value < service_tariff

PaySelectServiceMislabels(r, c) ==
    /\ pc[r] = "p_selsvc"
    /\ reply' = NoReply
    /\ OnClient(r, c)
    /\ IF code[r] \notin ServiceCodes \/ Insufficient(cur[r], ServiceTariff[code[r]])
       THEN Done(r, "InsufficientFunds")
       ELSE Goto(r, "p_begin")
    /\ UNCHANGED <<dbVars, sessVars, failures, now, locals, ghosts>>

\* SELECT service_name, service_tariff FROM tbl_service WHERE service_code = $1,
\* then the sufficiency check.
PaySelectService(r, c) ==
    /\ pc[r] = "p_selsvc"
    /\ reply' = NoReply
    /\ OnClient(r, c)
    /\ IF code[r] \notin ServiceCodes
       THEN Done(r, "ServiceNotFound")
       ELSE IF Insufficient(cur[r], ServiceTariff[code[r]])
       THEN Done(r, "InsufficientFunds")
       ELSE Goto(r, "p_begin")
    /\ UNCHANGED <<dbVars, sessVars, failures, now, locals, ghosts>>

\* await pool.query("BEGIN")
PayBegin(r, c) ==
    /\ pc[r] = "p_begin"
    /\ reply' = NoReply
    /\ OnClient(r, c)
    /\ PgBegin(c)
    /\ began' = [began EXCEPT ![r] = TRUE]
    /\ Goto(r, "p_update")
    /\ UNCHANGED <<dbVars, pbal, phist, pbalW, failures, now, locals,
                   seen, alone, bal0, hist0>>

DeductAdds(balance_value, service_tariff) == balance_value + service_tariff

\* newBalance = balance_value - service_tariff
Deduct(balance_value, service_tariff) == balance_value - service_tariff

\* UPDATE tbl_balance SET balance_value = $1 WHERE balance_id = $2, then
\* invNumber = generateInvoiceNumber().
PayUpdate(r, c, rnd) ==
    /\ pc[r] = "p_update"
    /\ reply' = NoReply
    /\ OnClient(r, c)
    /\ ~LockedByOther(c, {balId[r]} \cap DOMAIN View(c))
    /\ newBal' = [newBal EXCEPT ![r] = Deduct(cur[r], ServiceTariff[code[r]])]
    /\ IF balId[r] \in DOMAIN View(c)
       THEN WriteBalance(c, r, "upd", balId[r] :> newBal'[r])
       ELSE UNCHANGED <<bal, balW, pbal, pbalW>>
    /\ inv' = [inv EXCEPT ![r] = GenerateInvoiceNumber(now, rnd)]
    /\ Goto(r, "p_inshist")
    /\ UNCHANGED <<uniqueUserId, hist, nextBalId, tx, txStart, phist, failures, now,
                   op, amt, code, cur, balId, ghosts>>

\* INSERT INTO tbl_trx_history (...) VALUES ($1, $2, $3, $4, $5, 'PAYMENT', $6,
\* ...) with [balance_id, invNumber, service_tariff, balance_value, newBalance,
\* service_name].
PayInsertHistory(r, c) ==
    /\ pc[r] = "p_inshist"
    /\ reply' = NoReply
    /\ OnClient(r, c)
    /\ WriteHistory(c, HistoryRow(r, balId[r], inv[r], ServiceTariff[code[r]],
                                  cur[r], newBal[r], "PAYMENT", ServiceName[code[r]]))
    /\ Goto(r, "p_commit")
    /\ UNCHANGED <<uniqueUserId, bal, nextBalId, balW, tx, txStart, pbal, pbalW,
                   failures, now, locals, ghosts>>

\* await pool.query("COMMIT"), then res.json({ data: { invoice_number, ... } }).
PayCommit(r, c) ==
    /\ pc[r] = "p_commit"
    /\ reply' = NoReply
    /\ OnClient(r, c)
    /\ PgCommit(c)
    /\ Done(r, "ok")
    /\ UNCHANGED <<uniqueUserId, nextBalId, failures, now, locals, ghosts>>

PayResponse(r) ==
    [invoice_number |-> inv[r], service_code |-> code[r],
     service_name |-> ServiceName[code[r]], transaction_type |-> "PAYMENT",
     total_amount |-> ServiceTariff[code[r]]]

\* The store fails the statement of request r on client c (StoreUnavailable).
QueryFails(r, c) ==
    /\ InFlight(r)
    /\ reply' = NoReply
    /\ OnClient(r, c)
    /\ failures < MaxFailures
    /\ failures' = failures + 1
    /\ Raise(r, c)
    /\ UNCHANGED <<dbVars, now, locals, ghosts>>

\* The pool closes a client that stayed idle for idleTimeoutMillis (the
\* default, 10 s: new Pool sets none), and the server rolls its transaction
\* back.  A client a running request has used has not been idle that long.
CloseIdleClient(c) ==
    /\ tx[c] # "none"
    /\ reply' = NoReply
    /\ \A r \in Reqs : InFlight(r) => c \notin used[r]
    /\ PgDiscard(c)
    /\ UNCHANGED <<dbVars, failures, now, reqVars>>

\* A second passes.
Tick ==
    /\ now < MaxTime
    /\ reply' = NoReply
    /\ now' = now + 1
    /\ UNCHANGED <<dbVars, sessVars, failures, reqVars>>

\* ---------------------------------------------------------- GET handlers
\* A parameter of req.query: absent, or a string of digits.
QDigits(n) == [k |-> "digits", v |-> n]
PageInputs == {JUndef} \cup {QDigits(n) : n \in 0 .. MaxPage}

Null == -2000000

\* req.query.x ? parseInt(req.query.x) : null  (a non-empty string is truthy,
\* "0" included)
QueryNumber(q) == IF q.k = "undef" THEN Null ELSE q.v

\* tbl_trx_history also holds the rows of other users' balances.
OtherUsersHistory ==
    <<HistoryRow(-1, 0, GenerateInvoiceNumber(-2, 0), 1, 0, 1, "TOPUP",
                 "Top Up Balance") @@ [created_date |-> 0]>>

\* FROM tbl_trx_history trx LEFT JOIN tbl_balance ... LEFT JOIN tbl_user ...
\* WHERE usr.user_id = $1, in a statement on client c.
UserHistory(c) ==
    LET table == OtherUsersHistory \o hist
                    \o (IF tx[c] = "open" THEN phist[c] ELSE <<>>)
    IN {table[i] : i \in {j \in DOMAIN table :
                              table[j].balance_id \in DOMAIN View(c)}}

NewestLast(s) ==
    \A i \in 1 .. Len(s) - 1 : s[i].created_date <= s[i + 1].created_date

\* ORDER BY created_date DESC
NewestFirst(s) ==
    \A i \in 1 .. Len(s) - 1 : s[i].created_date >= s[i + 1].created_date

\* The orders ORDER BY may return the rows in: rows of equal created_date come
\* in any order.
OrderBy(rows) ==
    {s \in [1 .. Cardinality(rows) -> rows] :
        /\ \A i, j \in DOMAIN s : i # j => s[i] # s[j]
        /\ NewestFirst(s)}

\* LIMIT $2 OFFSET $3
LimitOffset(s, limit, offset) ==
    SubSeq(s, offset + 1, IF offset + limit < Len(s) THEN offset + limit ELSE Len(s))

\* if (result.rows.length === 0)
NoRows(rows) == rows = <<>>

\* GET /transaction/history with req.query.limit = ql, req.query.offset = qo,
\* its one statement on client c.
ListHistory(c, ql, qo) ==
    /\ LET limit == QueryNumber(ql)
           offset == QueryNumber(qo)
       IN \E s \in OrderBy(UserHistory(c)) :
              LET rows == IF limit # Null /\ offset # Null
                          THEN LimitOffset(s, limit, offset)
                          ELSE s
              IN reply' = [op |-> "history", limit |-> ql, offset |-> qo,
                           status |-> IF NoRows(rows) THEN "NotFound" ELSE "ok",
                           rows |-> rows, balance |-> 0]
    /\ UNCHANGED <<dbVars, sessVars, failures, now, reqVars>>

\* data: result.rows
HistoryData(rows) ==
    [i \in DOMAIN rows |->
        [invoice_number |-> rows[i].invoice_number,
         transaction_type |-> rows[i].trx_type,
         description |-> rows[i].description,
         total_amount |-> rows[i].amount,
         created_on |-> rows[i].created_date]]

\* GET /balance, its one statement on client c: balance_value of the first
\* row, 0 without a row.
GetBalance(c) ==
    /\ \E b \in (IF View(c) = Empty THEN {0}
                  ELSE {View(c)[id] : id \in DOMAIN View(c)}) :
           reply' = [op |-> "balance", limit |-> JUndef, offset |-> JUndef,
                     status |-> "ok", rows |-> <<>>, balance |-> b]
    /\ UNCHANGED <<dbVars, sessVars, failures, now, reqVars>>

\* The one statement of a GET handler fails on client c: the pool closes c
\* and the catch block answers 500.
ReadFails(c, get) ==
    /\ failures < MaxFailures
    /\ failures' = failures + 1
    /\ PgDiscard(c)
    /\ reply' = [op |-> get, limit |-> JUndef, offset |-> JUndef,
                 status |-> "Error500", rows |-> <<>>, balance |-> 0]
    /\ UNCHANGED <<dbVars, now, reqVars>>

\* The steps of the POST handlers of the requests R, and of the pool.
Handlers(R) ==
    \/ \E r \in R, a \in AmountInputs : TopUpRequest(r, a)
    \/ \E r \in R, c \in Conns : TopUpSelect(r, c)
    \/ \E r \in R, c \in Conns : TopUpInsertBalance(r, c)
    \/ \E r \in R, c \in Conns : TopUpBegin(r, c)
    \/ \E r \in R, c \in Conns, rnd \in 0 .. MaxRand : TopUpUpdate(r, c, rnd)
    \/ \E r \in R, c \in Conns : TopUpInsertHistory(r, c)
    \/ \E r \in R, c \in Conns : TopUpCommit(r, c)
    \/ \E r \in R, sc \in CodeInputs : PaymentRequest(r, sc)
    \/ \E r \in R, c \in Conns : PaySelectBalance(r, c)
    \/ \E r \in R, c \in Conns : PaySelectService(r, c)
    \/ \E r \in R, c \in Conns : PayBegin(r, c)
    \/ \E r \in R, c \in Conns, rnd \in 0 .. MaxRand : PayUpdate(r, c, rnd)
    \/ \E r \in R, c \in Conns : PayInsertHistory(r, c)
    \/ \E r \in R, c \in Conns : PayCommit(r, c)
    \/ \E r \in R, c \in Conns : QueryFails(r, c)
    \/ \E c \in Conns : CloseIdleClient(c)

Next == Handlers(Reqs)

Spec == Init /\ [][Next]_vars

\* The same program with the clock running.
NextClock == Next \/ Tick
SpecClock == Init /\ [][NextClock]_vars

\* The GET handlers beside one Top-Up or Payment.
NextRead ==
    \/ Handlers(FirstRequest)
    \/ \E c \in Conns, ql, qo \in PageInputs : ListHistory(c, ql, qo)
    \/ \E c \in Conns : GetBalance(c)
    \/ \E c \in Conns, get \in {"history", "balance"} : ReadFails(c, get)
SpecRead == Init /\ [][NextRead]_vars

\* ----------------------------------------------------------------- claims
NoRequestInFlight == \A r \in Reqs : ~InFlight(r)
NoStoreFailure == failures = 0 /\ \A r \in Reqs : result[r] # "Error500"
\* What an unsaturated pool does: every request ran all its statements on one
\* client, and no request that was in flight at the same time ran on it.
ClientPerRequest ==
    /\ \A r \in Reqs : Cardinality(used[r]) <= 1
    /\ \A r, q \in Reqs :
          (r # q /\ ~alone[r] /\ ~alone[q]) => used[r] \cap used[q] = {}

Signed(row) == IF row.trx_type = "TOPUP" THEN row.amount ELSE -row.amount

RECURSIVE LedgerSum(_, _)
LedgerSum(h, id) ==
    IF h = <<>> THEN 0
    ELSE (IF Head(h).balance_id = id THEN Signed(Head(h)) ELSE 0)
         + LedgerSum(Tail(h), id)

StoredValue(id) == IF id \in DOMAIN bal THEN bal[id] ELSE 0
LedgerIds == DOMAIN bal \cup {hist[i].balance_id : i \in DOMAIN hist}
RowsOf(h, r) == {i \in DOMAIN h : h[i].req = r}

\* C1: once no request is in flight (and none met a store failure), every
\* stored balance value equals the sum of the committed TOPUP amounts minus the
\* sum of the committed PAYMENT amounts of its history rows.
C1_BalanceEqualsLedger ==
    (NoRequestInFlight /\ NoStoreFailure /\ ClientPerRequest) =>
        \A id \in LedgerIds : StoredValue(id) = LedgerSum(hist, id)
Tariff(r) == ServiceTariff[code[r]]
Updated(r) == <<r, "upd">> \in balW
WroteBalance(r) == \E w \in balW : w[1] = r
AllHistoryRows ==
    {hist[i] : i \in DOMAIN hist}
        \cup UNION {{phist[c][i] : i \in DOMAIN phist[c]} : c \in Conns}

\* C2: a Payment's UPDATE never overwrites a balance value smaller than its
\* tariff (each request on a pool client of its own, no store failure): two
\* payments cannot both pass the check on the same balance and both deduct.
C2_NoOverdraft ==
    [][\A r \in Reqs :
          (/\ pc[r] = "p_update"
           /\ pc'[r] = "p_inshist"
           /\ failures = 0
           /\ ClientPerRequest') =>
              \A c \in used'[r] :
                  balId[r] \in DOMAIN View(c) => Tariff(r) <= View(c)[balId[r]]]_vars

\* C3: no two requests that both committed an UPDATE of the balance both read
\* it before the other's UPDATE was visible (no lost update).
C3_NoLostUpdate ==
    \A r, q \in Reqs :
        (/\ r # q
         /\ ClientPerRequest
         /\ failures = 0
         /\ result[r] = "ok" /\ result[q] = "ok"
         /\ Updated(r) /\ Updated(q)) =>
            (q \in seen[r] \/ r \in seen[q])

\* C4: a Top-Up or Payment answered with an error (each request on a pool
\* client of its own) has no committed write: it neither created nor updated
\* a tbl_balance row and added no history row.
C4_FailureAtomicity ==
    \A r \in Reqs :
        (/\ pc[r] = "done"
         /\ result[r] # "ok"
         /\ ClientPerRequest) =>
            (~WroteBalance(r) /\ RowsOf(hist, r) = {})

C6_NonNegativeBalance ==
    /\ \A id \in DOMAIN bal : bal[id] \in Nat
    /\ \A c \in Conns : \A id \in DOMAIN pbal[c] : pbal[c][id] \in Nat

C6_Witness ==
    \E r, q \in Reqs :
        /\ op[r] = "payment" /\ result[r] = "ok" /\ Updated(r)
        /\ op[q] = "payment" /\ result[q] = "ok" /\ Updated(q)
        /\ r # q
        /\ \E id \in DOMAIN bal : bal[id] = 0

\* C7: tbl_balance never holds more than one row of the user.
C7_OneBalanceRow ==
    (failures = 0 /\ ClientPerRequest) => Cardinality(DOMAIN bal) <= 1

PositiveInteger(a) == a.k = "int" /\ a.v > 0
\* History rows without the timestamp the store gave them.
Unstamped(h) ==
    [i \in DOMAIN h |-> [f \in (DOMAIN h[i]) \ {"created_date"} |-> h[i][f]]]
NoneArrivedAfter(r) == \A q \in Reqs : q > r => pc[q] = "idle"

\* C8: a Top-Up of a positive integer amount during which no other request of
\* the user was in flight (and no store failure) succeeds; with b the prior
\* value (0, and a row is created, when there was none) the stored balance is
\* b + amount, exactly one row {TOPUP, amount, b, b + amount} is appended and
\* the response carries b + amount.
C8_TopUpAlone ==
    \A r \in Reqs :
        (/\ op[r] = "topup" /\ pc[r] = "done"
         /\ PositiveInteger(amt[r])
         /\ alone[r] /\ NoneArrivedAfter(r)
         /\ failures = 0
         /\ Cardinality(DOMAIN bal0[r]) <= 1) =>
            LET b == IF bal0[r] = Empty THEN 0
                     ELSE bal0[r][CHOOSE id \in DOMAIN bal0[r] : TRUE]
                a == amt[r].v
            IN /\ result[r] = "ok"
               /\ \E id \in DOMAIN bal :
                     /\ bal = id :> (b + a)
                     /\ bal0[r] # Empty => id \in DOMAIN bal0[r]
                     /\ Unstamped(hist) = Append(Unstamped(hist0[r]),
                                HistoryRow(r, id, inv[r], a, b, b + a, "TOPUP",
                                           "Top Up Balance"))
               /\ TopUpResponse(r).balance = b + a

\* C9: a Payment for a catalogued service of tariff t, by a user whose one
\* balance row holds b >= t, during which no other request of the user was in
\* flight (and no store failure) succeeds; the stored balance is b - t,
\* exactly one row {PAYMENT, t, b, b - t, service name} is appended and the
\* response carries its invoice number, the service name and total_amount t.
C9_PaymentAlone ==
    \A r \in Reqs :
        (/\ op[r] = "payment" /\ pc[r] = "done"
         /\ code[r] \in ServiceCodes
         /\ alone[r] /\ NoneArrivedAfter(r)
         /\ failures = 0
         /\ Cardinality(DOMAIN bal0[r]) = 1
         /\ \A id \in DOMAIN bal0[r] : bal0[r][id] >= ServiceTariff[code[r]]) =>
            LET id == CHOOSE i \in DOMAIN bal0[r] : TRUE
                b == bal0[r][id]
                t == ServiceTariff[code[r]]
                row == HistoryRow(r, id, inv[r], t, b, b - t, "PAYMENT",
                                  ServiceName[code[r]])
            IN /\ result[r] = "ok"
               /\ bal = id :> (b - t)
               /\ Unstamped(hist) = Append(Unstamped(hist0[r]), row)
               /\ PayResponse(r).invoice_number = row.invoice_number
               /\ PayResponse(r).service_name = ServiceName[code[r]]
               /\ PayResponse(r).total_amount = t

\* C8 and C9 when every request keeps to a pool client of its own: both hold.
C8_TopUpAloneOnOneClient == ClientPerRequest => C8_TopUpAlone
C9_PaymentAloneOnOneClient == ClientPerRequest => C9_PaymentAlone

\* C10: a Payment that read a balance value smaller than the tariff never
\* goes past the sufficiency check, and a Payment answered InsufficientFunds
\* read such a balance, issued no BEGIN and wrote neither tbl_balance nor
\* tbl_trx_history (committed or not).
C10_InsufficientFunds ==
    \A r \in Reqs :
        /\ (op[r] = "payment" /\ (began[r] \/ result[r] = "ok")) =>
               cur[r] >= Tariff(r)
        /\ result[r] = "InsufficientFunds" =>
               /\ cur[r] < Tariff(r)
               /\ ~began[r]
               /\ \A w \in balW \cup UNION {pbalW[c] : c \in Conns} : w[1] # r
               /\ \A row \in AllHistoryRows : row.req # r

C10_Witness ==
    \E r \in Reqs :
        /\ result[r] = "InsufficientFunds"
        /\ \E id \in DOMAIN bal : bal[id] < Tariff(r)

\* C11: a Top-Up whose amount is not a positive integer never reaches the
\* store (no statement of it runs on any pool client) and is answered
\* InvalidAmount.
C11_InvalidAmount ==
    \A r \in Reqs :
        (op[r] = "topup" /\ ~PositiveInteger(amt[r])) =>
            /\ used[r] = {}
            /\ pc[r] = "done" => result[r] = "InvalidAmount"

PendingWrites == UNION {pbalW[c] : c \in Conns}

C16_InvoiceUnique ==
    (ClientPerRequest /\ failures = 0) =>
        \A i, j \in DOMAIN hist :
            i # j => hist[i].invoice_number # hist[j].invoice_number

\* C17: once a Top-Up or Payment that issued BEGIN has been answered with an
\* error (no other request of the user in flight during it or after it), none
\* of the pool clients its statements ran on is still inside a transaction.
C17_RollbackBeforeError ==
    \A r \in Reqs :
        (/\ pc[r] = "done" /\ result[r] = "Error500"
         /\ began[r]
         /\ alone[r] /\ NoneArrivedAfter(r)) =>
            \A c \in used[r] : tx[c] = "none"

\* C17 when every request keeps to a pool client of its own: holds, the pool
\* closing the client of the failed statement.
C17_RollbackBeforeErrorOnOneClient == ClientPerRequest => C17_RollbackBeforeError

\* C18: whenever history rows become committed, the committed balance_value of
\* each row's balance equals the row's balance_after.
C18_BalanceAfterAtCommit ==
    [][\A i \in DOMAIN hist' :
          i > Len(hist) =>
              /\ hist'[i].balance_id \in DOMAIN bal'
              /\ bal'[hist'[i].balance_id] = hist'[i].balance_after]_vars

\* C18 when every request keeps to a pool client of its own: holds.
C18_BalanceAfterAtCommitOnOneClient ==
    [][ClientPerRequest' =>
          \A i \in DOMAIN hist' :
              i > Len(hist) =>
                  /\ hist'[i].balance_id \in DOMAIN bal'
                  /\ bal'[hist'[i].balance_id] = hist'[i].balance_after]_vars

\* C19: the committed store never shows a balance UPDATE of a request without
\* that request's history row.
C19_NoPartialVisibility ==
    \A r \in Reqs : Updated(r) => RowsOf(hist, r) # {}

\* C19 when every request keeps to a pool client of its own: holds.
C19_NoPartialVisibilityOnOneClient == ClientPerRequest => C19_NoPartialVisibility

\* C20: the committed store never shows the balance row a Top-Up inserted
\* unless that Top-Up has committed (each request on a pool client of its own,
\* no store failure).
C20_FirstTopUpAtomic ==
    (ClientPerRequest /\ failures = 0) =>
        \A r \in Reqs : <<r, "ins">> \in balW => result[r] = "ok"

\* The committed history h2 keeps every row of h, fields unchanged, in place.
KeepsRows(h, h2) == Len(h) <= Len(h2) /\ SubSeq(h2, 1, Len(h)) = h
OneRowAdded(r, h) == Cardinality(RowsOf(h, r)) = 1

\* C21: history is append-only: no step modifies or removes a committed
\* history row, and every Top-Up or Payment answered with success has added
\* exactly one row to the committed history.
C21_HistoryAppendOnly ==
    [][/\ KeepsRows(hist, hist')
       /\ \A r \in Reqs :
             (pc'[r] = "done" /\ result'[r] = "ok") => OneRowAdded(r, hist')]_vars

\* C21, the frame half alone: holds, no statement of the handlers updates or
\* deletes a row of tbl_trx_history.
C21_NoRowModifiedOrRemoved == [][KeepsRows(hist, hist')]_vars

\* C21 when every request keeps to a pool client of its own: holds.
C21_HistoryAppendOnlyOnOneClient ==
    [][/\ KeepsRows(hist, hist')
       /\ ClientPerRequest' =>
             \A r \in Reqs :
                 (pc'[r] = "done" /\ result'[r] = "ok") =>
                     OneRowAdded(r, hist')]_vars

\* A request has been answered with success and its row is committed.
C21_RowAddedOnSuccess ==
    \E r \in Reqs :
        pc[r] = "done" /\ result[r] = "ok" /\ OneRowAdded(r, hist) /\ Len(hist) > 1

\* ------------------------------------------------------ claims on the GETs
Rows(s) == {s[i] : i \in DOMAIN s}
Descending(s) ==
    \A i, j \in DOMAIN s : i < j => s[i].created_date >= s[j].created_date
UserBalanceIds == DOMAIN bal \cup UNION {DOMAIN pbal[c] : c \in Conns}

\* The user's history rows a statement on client c sees, newest first.
FullListings(c) ==
    {s \in [1 .. Cardinality(UserHistory(c)) -> UserHistory(c)] :
        Rows(s) = UserHistory(c) /\ Descending(s)}

\* rows is the slice of at most limit rows of s that starts after offset rows.
IsSlice(rows, s, limit, offset) ==
    /\ Len(rows) <= limit
    /\ \A i \in DOMAIN rows : offset + i \in DOMAIN s /\ rows[i] = s[offset + i]
    /\ Len(rows) < limit => offset + Len(rows) >= Len(s)

Answered(get) == reply.op = get /\ reply.status # "Error500"

\* C13: the rows GET /transaction/history answers with are history rows of
\* the user's balance, newest first by created_date; with limit and offset
\* both given they are the slice of at most limit rows starting at offset of
\* the user's rows in that order, with neither given they are all of them.
C13_ListHistory ==
    Answered("history") =>
        /\ \A i \in DOMAIN reply.rows : reply.rows[i].balance_id \in UserBalanceIds
        /\ Descending(reply.rows)
        /\ (reply.limit # JUndef /\ reply.offset # JUndef) =>
               \E c \in Conns : \E s \in FullListings(c) :
                   IsSlice(reply.rows, s, reply.limit.v, reply.offset.v)
        /\ (reply.limit = JUndef /\ reply.offset = JUndef) =>
               \E c \in Conns : reply.rows \in FullListings(c)

C13_Witness ==
    /\ Answered("history")
    /\ reply.limit = QDigits(1) /\ reply.offset = QDigits(1)
    /\ Len(reply.rows) = 1
    /\ \E row \in Rows(hist) : row.created_date > reply.rows[1].created_date

NoOpenTransaction == \A c \in Conns : tx[c] = "none"
CommittedUserHistory == {row \in Rows(hist) : row.balance_id \in DOMAIN bal}

\* C14: GET /transaction/history (no client inside a transaction) answers
\* NotFound exactly when the user has no history row, whatever limit and
\* offset are.
C14_NotFoundIffNoHistory ==
    (Answered("history") /\ NoOpenTransaction) =>
        (reply.status = "NotFound" <=> CommittedUserHistory = {})

\* C14 for the calls without pagination: holds.
C14_NotFoundIffNoHistoryUnpaged ==
    (reply.limit = JUndef \/ reply.offset = JUndef) => C14_NotFoundIffNoHistory

\* C15: a GET handler changes neither tbl_balance nor tbl_trx_history, and a
\* GET /transaction/history that follows one with the same limit and offset,
\* no request in flight and nothing done in between, answers the same rows.
C15_IdempotentRead ==
    [][reply'.op # "none" =>
          /\ bal' = bal /\ hist' = hist
          /\ (/\ reply.op = "history" /\ reply'.op = "history"
              /\ reply.status # "Error500" /\ reply'.status # "Error500"
              /\ reply'.limit = reply.limit /\ reply'.offset = reply.offset
              /\ NoRequestInFlight) =>
                 (reply'.rows = reply.rows /\ reply'.status = reply.status)]_vars

\* C15 when no pool client has been left inside a transaction: holds.
C15_IdempotentReadNoOpenTransaction ==
    [][(reply'.op # "none" /\ NoOpenTransaction) =>
          /\ bal' = bal /\ hist' = hist
          /\ (/\ reply.op = "history" /\ reply'.op = "history"
              /\ reply.status # "Error500" /\ reply'.status # "Error500"
              /\ reply'.limit = reply.limit /\ reply'.offset = reply.offset) =>
                 (reply'.rows = reply.rows /\ reply'.status = reply.status)]_vars
====
